---- MODULE Spec2Model ----
(***************************************************************************)
(* StepIndicator (src/components/step-indicator.tsx): a props-driven       *)
(* rendering function.  The component is modelled as the element tree it   *)
(* returns; the callers are render passes, each holding its own props and  *)
(* invoking the component, one whole (synchronous) invocation per step.    *)
(***************************************************************************)
EXTENDS Integers, Sequences, FiniteSets, TLC

\* ------------------------------------------------------------------ bounds
MaxLen == 3         \* longest steps array a caller passes
MaxStep == 4        \* largest currentStep a caller passes
MaxNeg == 1         \* callers pass currentStep down to -MaxNeg
MaxRenders == 3     \* invocations recorded per behaviour

\* ------------------------------------------------------------ caller inputs
Passes == {"pass1", "pass2"}

LabelPool == <<"A", "B", "C", "D", "E", "F">>
PoolAt(i) == LabelPool[((i - 1) % Len(LabelPool)) + 1]

\* The steps arrays callers pass: n pairwise distinct labels, or n labels
\* that repeat (B, A, B, ...).
Wizard(n) == [i \in 1..n |-> PoolAt(i)]
Repeating(n) == [i \in 1..n |-> IF i % 2 = 1 THEN PoolAt(2) ELSE PoolAt(1)]

StepSeqs == {Wizard(n) : n \in 0..MaxLen} \cup {Repeating(n) : n \in 0..MaxLen}
StepRange == (0 - MaxNeg)..MaxStep

VARIABLES
    steps,          \* steps[p]: the steps prop pass p hands to the component
    currentStep,    \* currentStep[p]: the currentStep prop of pass p
    renders         \* the invocations so far: inputs handed in, tree returned

vars == <<steps, currentStep, renders>>

\* ------------------------------------------------------- the element tree
\* A JSX element: its type, its className, its children in document order.
Element(type, className, children) ==
    [type |-> type, className |-> className, children |-> children]

\* A JSX element of a list, carrying its key.
KeyedElement(type, key, className, children) ==
    [type |-> type, key |-> key, className |-> className, children |-> children]

markerBase == "flex h-8 w-8 items-center justify-center rounded-full border-2 "
completedStyle == "border-primary bg-primary text-primary-foreground"
currentStyle == "border-primary bg-background text-primary"
pendingStyle == "border-muted bg-background"

\* Mutant: the comparison includes the current index.
isCompletedInclusive(index, current) == index <= current
\* Mutant: the index is taken as one-based.
isCompletedOneBased(index, current) == index + 1 < current
\* Mutant: the comparison is the wrong way round.
isCompletedFlipped(index, current) == index > current
\* const isCompleted = index < currentStep
isCompleted(index, current) == index < current

\* Mutant: a negative currentStep is clamped to the first step.
isCurrentClamped(index, current) ==
    index = (IF current < 0 THEN 0 ELSE current)
\* Mutant: currentStep is taken as one-based.
isCurrentOneBased(index, current) == index = current + 1
\* const isCurrent = index === currentStep
isCurrent(index, current) == index = current

markerClassName(index, current) ==
    markerBase \o (IF isCompleted(index, current) THEN completedStyle
                   ELSE IF isCurrent(index, current) THEN currentStyle
                   ELSE pendingStyle)

\* Mutant: the marker shows the zero-based index.
markerContentZeroBased(index, current) ==
    IF isCompleted(index, current)
    THEN Element("CheckIcon", "h-4 w-4", <<>>)
    ELSE Element("span", "text-sm font-medium", <<index>>)
\* The glyph inside the marker: a checkmark, or the one-based step number.
markerContent(index, current) ==
    IF isCompleted(index, current)
    THEN Element("CheckIcon", "h-4 w-4", <<>>)
    ELSE Element("span", "text-sm font-medium", <<index + 1>>)

marker(index, current) ==
    Element("div", markerClassName(index, current),
            <<markerContent(index, current)>>)

\* Mutant: only the steps reached so far show their label.
stepLabelOnlyReached(step, index, current) ==
    IF index <= current
    THEN Element("span", "mt-2 hidden text-xs sm:block", <<step>>)
    ELSE Element("span", "mt-2 hidden text-xs sm:block", <<>>)
\* The label under the marker.
stepLabel(step, index, current) ==
    Element("span", "mt-2 hidden text-xs sm:block", <<step>>)

\* The callback of steps.map: one <li> for the step at (zero-based) index.
stepItem(step, index, current) ==
    KeyedElement("li", index, "flex flex-col items-center",
                 <<marker(index, current), stepLabel(step, index, current)>>)

baseline ==
    Element("div",
            "absolute left-0 top-1/2 h-0.5 w-full -translate-y-1/2 bg-muted",
            <<>>)

\* Mutant: the loop stops one entry early.
stepListDropLast(props) ==
    Element("ol", "relative z-10 flex w-full justify-between",
            [i \in 1..(Len(props.steps) - 1) |->
                stepItem(props.steps[i], i - 1, props.currentStep)])
\* steps.map(callback): index i of the result is the callback on entry i.
stepList(props) ==
    Element("ol", "relative z-10 flex w-full justify-between",
            [i \in 1..Len(props.steps) |->
                stepItem(props.steps[i], i - 1, props.currentStep)])

\* Mutant: the baseline is rendered only when there is a step to connect.
StepIndicatorBaselineIfSteps(props) ==
    Element("div", "relative",
            IF Len(props.steps) > 0 THEN <<baseline, stepList(props)>>
            ELSE <<stepList(props)>>)
\* The component: the tree it returns for { steps, currentStep }.
StepIndicator(props) ==
    Element("div", "relative", <<baseline, stepList(props)>>)

\* ---------------------------------------------------------------- actions
Props(p) == [steps |-> steps[p], currentStep |-> currentStep[p]]

Init ==
    /\ steps \in [Passes -> StepSeqs]
    /\ currentStep \in [Passes -> StepRange]
    /\ renders = <<>>

\* Pass p invokes the component with its props.
Render(p) ==
    /\ Len(renders) < MaxRenders
    /\ renders' = Append(renders,
                         [pass |-> p, steps |-> steps[p],
                          currentStep |-> currentStep[p],
                          out |-> StepIndicator(Props(p))])
    /\ UNCHANGED <<steps, currentStep>>

Next == \E p \in Passes : Render(p)

Spec == Init /\ [][Next]_vars

\* ------------------------------------------------ a mounted, re-rendered pass
\* The pass whose caller keeps re-invoking the component as its wizard moves.
Mounted == "pass1"

\* The caller hands pass p a new currentStep (any integer, forwards or back).
SetCurrentStep(p, c) ==
    /\ Len(renders) < MaxRenders
    /\ c # currentStep[p]
    /\ currentStep' = [currentStep EXCEPT ![p] = c]
    /\ UNCHANGED <<steps, renders>>

InitRerender ==
    /\ Init
    /\ \A p \in Passes \ {Mounted} : steps[p] = <<>> /\ currentStep[p] = 0

NextRerender ==
    \/ Render(Mounted)
    \/ \E c \in StepRange : SetCurrentStep(Mounted, c)

SpecRerender == InitRerender /\ [][NextRerender]_vars

\* ------------------------------------------------- reading a returned tree
Items(out) == out.children[2].children
MarkerOf(li) == li.children[1]
LabelOf(li) == li.children[2]
GlyphOf(li) == MarkerOf(li).children[1]

StateOf(li) ==
    LET cls == MarkerOf(li).className IN
    IF cls = markerBase \o completedStyle THEN "Completed"
    ELSE IF cls = markerBase \o currentStyle THEN "Current"
    ELSE IF cls = markerBase \o pendingStyle THEN "Pending"
    ELSE "Unknown"

States == {"Completed", "Current", "Pending"}
Rendered == {renders[j] : j \in 1..Len(renders)}
CountOf(out, state) ==
    Cardinality({i \in DOMAIN Items(out) : StateOf(Items(out)[i]) = state})
Min(a, b) == IF a < b THEN a ELSE b
Max(a, b) == IF a > b THEN a ELSE b

\* ------------------------------------------------------------------ claims
\* What the index comparison of the specification assigns to step i (1-based
\* position in the tree, zero-based index i - 1) under currentStep c.
Expected(i, c) ==
    IF i - 1 < c THEN "Completed" ELSE IF i - 1 = c THEN "Current" ELSE "Pending"

\* C1: every rendered step is classified as exactly one of Completed, Current,
\* Pending: Completed iff i < currentStep, Current iff i = currentStep,
\* Pending iff i > currentStep.
C1_Classification ==
    \A r \in Rendered : \A i \in DOMAIN Items(r.out) :
        LET s == StateOf(Items(r.out)[i]) IN
        /\ s \in States
        /\ (s = "Completed") <=> (i - 1 < r.currentStep)
        /\ (s = "Current") <=> (i - 1 = r.currentStep)
        /\ (s = "Pending") <=> (i - 1 > r.currentStep)

\* C1 witness: one render shows all three states (currentStep strictly inside).
C1_Witness ==
    \E r \in Rendered :
        /\ Len(r.steps) = 3 /\ r.currentStep = 1
        /\ StateOf(Items(r.out)[1]) = "Completed"
        /\ StateOf(Items(r.out)[2]) = "Current"
        /\ StateOf(Items(r.out)[3]) = "Pending"

\* C2: one render classifies exactly max(0, min(c, N)) steps as Completed, at
\* most one as Current and all the others as Pending (the counts sum to N).
C2_Counts ==
    \A r \in Rendered :
        LET N == Len(r.steps) IN
        /\ CountOf(r.out, "Completed") = Max(0, Min(r.currentStep, N))
        /\ CountOf(r.out, "Current") <= 1
        /\ CountOf(r.out, "Pending")
              = N - CountOf(r.out, "Completed") - CountOf(r.out, "Current")

\* C2 witness: a render where min(c, N) is c (with one Current step) and a
\* render where it is N (currentStep beyond the end, no Current step).
C2_Witness ==
    /\ \E r \in Rendered : r.currentStep = 2 /\ Len(r.steps) = 3
                            /\ CountOf(r.out, "Completed") = 2
                            /\ CountOf(r.out, "Current") = 1
                            /\ CountOf(r.out, "Pending") = 0
    /\ \E r \in Rendered : r.currentStep > Len(r.steps) /\ Len(r.steps) = 2
                            /\ CountOf(r.out, "Completed") = 2
                            /\ CountOf(r.out, "Current") = 0

\* C3: the tree has exactly steps.length markers, one per entry and in the
\* order of steps (position i is keyed i and carries steps[i]); none for [].
C3_OneMarkerPerStep ==
    \A r \in Rendered :
        /\ Len(Items(r.out)) = Len(r.steps)
        /\ \A i \in DOMAIN Items(r.out) :
              /\ Items(r.out)[i].type = "li"
              /\ Items(r.out)[i].key = i - 1
              /\ Len(Items(r.out)[i].children) = 2
              /\ LabelOf(Items(r.out)[i]).children = <<r.steps[i]>>
        /\ (r.steps = <<>>) => (Items(r.out) = <<>>)

\* C3 witness: an empty steps array rendered to zero markers, and an array of
\* distinct labels rendered in order.
C3_Witness ==
    /\ \E r \in Rendered : r.steps = <<>> /\ Len(Items(r.out)) = 0
    /\ \E r \in Rendered : r.steps = <<"A", "B", "C">> /\ Len(Items(r.out)) = 3
                            /\ LabelOf(Items(r.out)[3]).children = <<"C">>

\* C4: an out-of-range currentStep still yields a tree with steps.length
\* markers; negative makes every step Pending, >= steps.length every step
\* Completed.
C4_Saturation ==
    \A r \in Rendered :
        /\ r.out.type = "div"
        /\ Len(Items(r.out)) = Len(r.steps)
        /\ (r.currentStep < 0) =>
              \A i \in DOMAIN Items(r.out) : StateOf(Items(r.out)[i]) = "Pending"
        /\ (r.currentStep >= Len(r.steps)) =>
              \A i \in DOMAIN Items(r.out) : StateOf(Items(r.out)[i]) = "Completed"

\* C4 witness: three steps rendered all Pending (currentStep -1) and three
\* steps rendered all Completed (currentStep 3).
C4_Witness ==
    /\ \E r \in Rendered : r.currentStep = 0 - 1 /\ Len(r.steps) = 3
                            /\ CountOf(r.out, "Pending") = 3
    /\ \E r \in Rendered : r.currentStep = 3 /\ Len(r.steps) = 3
                            /\ CountOf(r.out, "Completed") = 3

\* C5: the marker's visual follows the step's state: Completed has the filled
\* style and a checkmark (no number), Current the outlined style and i + 1,
\* Pending the muted style and i + 1; the styles are pairwise distinct and a
\* marker shows a checkmark iff it has the filled style.
C5_MarkerVisual ==
    /\ completedStyle # currentStyle
    /\ completedStyle # pendingStyle
    /\ currentStyle # pendingStyle
    /\ \A r \in Rendered : \A i \in DOMAIN Items(r.out) :
          LET li == Items(r.out)[i]
              cls == MarkerOf(li).className
              glyph == GlyphOf(li)
              number == Element("span", "text-sm font-medium", <<i>>)
          IN
          /\ Len(MarkerOf(li).children) = 1
          /\ Expected(i, r.currentStep) = "Completed" =>
                /\ cls = markerBase \o completedStyle
                /\ glyph.type = "CheckIcon" /\ glyph.children = <<>>
          /\ Expected(i, r.currentStep) = "Current" =>
                cls = markerBase \o currentStyle /\ glyph = number
          /\ Expected(i, r.currentStep) = "Pending" =>
                cls = markerBase \o pendingStyle /\ glyph = number
          /\ (glyph.type = "CheckIcon") <=> (cls = markerBase \o completedStyle)

\* C5 witness: a render with a checkmark, an outlined "2" and a muted "3".
C5_Witness ==
    \E r \in Rendered :
        /\ Len(r.steps) = 3 /\ r.currentStep = 1
        /\ GlyphOf(Items(r.out)[1]).type = "CheckIcon"
        /\ GlyphOf(Items(r.out)[2]).children = <<2>>
        /\ MarkerOf(Items(r.out)[2]).className = markerBase \o currentStyle
        /\ GlyphOf(Items(r.out)[3]).children = <<3>>
        /\ MarkerOf(Items(r.out)[3]).className = markerBase \o pendingStyle

\* C6: item i carries the label steps[i], and neither the presence nor the
\* text of the label depends on the step's state (on currentStep).
C6_Labels ==
    \A r \in Rendered : \A i \in 1..Len(r.steps) :
        /\ i \in DOMAIN Items(r.out)
        /\ LabelOf(Items(r.out)[i]).type = "span"
        /\ LabelOf(Items(r.out)[i]).children = <<r.steps[i]>>
        /\ \A q \in Rendered :
              (q.steps = r.steps) =>
                  LabelOf(Items(q.out)[i]) = LabelOf(Items(r.out)[i])

\* C6 witness: the same steps rendered under two currentStep values that put
\* step 1 in different states, with the same label element both times.
C6_Witness ==
    \E r, q \in Rendered :
        /\ r.steps = q.steps /\ Len(r.steps) = 3
        /\ StateOf(Items(r.out)[1]) = "Completed"
        /\ StateOf(Items(q.out)[1]) = "Pending"
        /\ LabelOf(Items(q.out)[1]) = LabelOf(Items(r.out)[1])

\* C8: every returned tree holds exactly one baseline element, placed before
\* the ordered list of markers, also when steps is empty.
C8_Baseline ==
    \A r \in Rendered :
        /\ Len(r.out.children) = 2
        /\ r.out.children[1] = baseline
        /\ r.out.children[2].type = "ol"
        /\ Cardinality({n \in DOMAIN r.out.children :
                            r.out.children[n] = baseline}) = 1

\* C8 witness: an empty steps array rendered to a baseline and an empty list.
C8_Witness ==
    \E r \in Rendered :
        /\ r.steps = <<>>
        /\ r.out.children[1] = baseline
        /\ r.out.children[2].children = <<>>

\* C9: in every render the Completed steps form a prefix and the Pending
\* steps a suffix; a Current step exists iff 0 <= currentStep < steps.length,
\* and it is then the step at index currentStep, right after the last
\* Completed step.
C9_Ordered ==
    \A r \in Rendered :
        LET items == Items(r.out)
            c == r.currentStep
        IN
        /\ \A i, j \in DOMAIN items :
              i < j =>
                /\ StateOf(items[j]) = "Completed" => StateOf(items[i]) = "Completed"
                /\ StateOf(items[j]) = "Current" => StateOf(items[i]) = "Completed"
                /\ StateOf(items[i]) = "Pending" => StateOf(items[j]) = "Pending"
        /\ (\E i \in DOMAIN items : StateOf(items[i]) = "Current")
              <=> (0 <= c /\ c < Len(r.steps))
        /\ \A i \in DOMAIN items :
              StateOf(items[i]) = "Current" =>
                /\ i - 1 = c
                /\ CountOf(r.out, "Completed") = i - 1

\* C9 witness: a render with a Completed prefix, the Current step and a
\* Pending suffix, and a render without a Current step.
C9_Witness ==
    /\ \E r \in Rendered :
          /\ Len(r.steps) = 3 /\ r.currentStep = 1
          /\ StateOf(Items(r.out)[2]) = "Current"
    /\ \E r \in Rendered :
          /\ Len(r.steps) = 3 /\ r.currentStep = 4
          /\ CountOf(r.out, "Current") = 0

\* Renders j..k are re-renders with the same steps and a currentStep the
\* caller never decreased.
Advancing(j, k) ==
    \A m \in j..(k - 1) :
        /\ renders[m + 1].steps = renders[m].steps
        /\ renders[m].currentStep <= renders[m + 1].currentStep

\* C10: across re-renders with the same steps and a never decreasing
\* currentStep no step moves backwards (Completed stays Completed, Current
\* becomes Current or Completed, the Completed count does not decrease), and
\* a move from c to c + 1 with 0 <= c < steps.length changes only index c
\* (Current to Completed) and index c + 1 if it exists (Pending to Current).
C10_NoStepBack ==
    /\ \A j, k \in 1..Len(renders) :
          (j < k /\ Advancing(j, k)) =>
            LET before == Items(renders[j].out)
                after == Items(renders[k].out)
            IN
            /\ DOMAIN before = DOMAIN after
            /\ \A i \in DOMAIN before :
                  /\ StateOf(before[i]) = "Completed" =>
                        StateOf(after[i]) = "Completed"
                  /\ StateOf(before[i]) = "Current" =>
                        StateOf(after[i]) \in {"Current", "Completed"}
            /\ CountOf(renders[j].out, "Completed")
                  <= CountOf(renders[k].out, "Completed")
    /\ \A j \in 1..(Len(renders) - 1) :
          LET c == renders[j].currentStep
              before == Items(renders[j].out)
              after == Items(renders[j + 1].out)
          IN
          (/\ renders[j + 1].steps = renders[j].steps
           /\ renders[j + 1].currentStep = c + 1
           /\ 0 <= c /\ c < Len(renders[j].steps)) =>
            /\ DOMAIN before = DOMAIN after
            /\ \A i \in DOMAIN before :
                  IF i - 1 = c
                  THEN StateOf(before[i]) = "Current"
                       /\ StateOf(after[i]) = "Completed"
                  ELSE IF i - 1 = c + 1
                  THEN StateOf(before[i]) = "Pending"
                       /\ StateOf(after[i]) = "Current"
                  ELSE StateOf(after[i]) = StateOf(before[i])

\* C10 witness: three steps rendered at currentStep 0, 1 and 3: step 0 goes
\* Current, Completed, Completed; step 1 goes Pending, Current, Completed.
C10_Witness ==
    /\ Len(renders) = 3
    /\ Len(renders[1].steps) = 3
    /\ renders[1].currentStep = 0
    /\ renders[2].currentStep = 1
    /\ renders[3].currentStep = 3
    /\ StateOf(Items(renders[1].out)[1]) = "Current"
    /\ StateOf(Items(renders[2].out)[1]) = "Completed"
    /\ StateOf(Items(renders[1].out)[2]) = "Pending"
    /\ StateOf(Items(renders[2].out)[2]) = "Current"
    /\ StateOf(Items(renders[3].out)[2]) = "Completed"
====
